---- MODULE Spec2Model ----
(***************************************************************************)
(* Model of the Vagrant CLI wrapper (package vagrantexec) and of the       *)
(* shell runner (package command).                                         *)
(*                                                                         *)
(* A Go string or byte slice is a sequence of tokens.  A token is a run of *)
(* characters that no rule of the program splits: the structural comma,    *)
(* the line feed, a blank, a parenthesis, Vagrant's comma marker, or a     *)
(* word.  One behaviour of the model is one call of one public operation   *)
(* on a wrapper built by New().                                            *)
(***************************************************************************)
EXTENDS Integers, Sequences, FiniteSets, TLC

VARIABLES pc, op, arg, invoked, proc, execRet, parsed, ret, log

vars == <<pc, op, arg, invoked, proc, execRet, parsed, ret, log>>

\* ------------------------------------------------------------- bounds
\* The longest machine-readable stream (in lines) a successful process prints.
MaxLines == 3

\* ------------------------------------------------------------- tokens
COMMA == ","
LF == "<LF>"
SP == " "
LPAR == "("
RPAR == ")"
VAGRANT_COMMA == "%!(VAGRANT_COMMA)"
ESC_LF == "\\n"

\* A Go string holding one word.
S(w) == <<w>>

\* const binary = "vagrant"
binary == S("vagrant")

\* Tokens made of word characters and hyphens only: the class [\w-].
WordTokens == {"vagrant-disksize", "vagrant-vbguest", "global", "local",
               "info", "a", "b", "1", "No", "plugins"}
\* Tokens made of lowercase letters only: the class [a-z].
LowerTokens == {"global", "local", "info", "a", "b", "plugins"}

\* ------------------------------------------------------------- errors
NoError == [kind |-> "nil"]
MalformedRecordError == [kind |-> "MalformedRecordError"]
EntryNotFoundError(t) == [kind |-> "EntryNotFoundError", type |-> t]
PluginNameError == [kind |-> "errors.New", msg |-> "plugin must have a name"]
newExitError(cmd, code, stderr) ==
    [kind |-> "ExitError", cmd |-> cmd, code |-> code, stderr |-> stderr]

\* ------------------------------------------------------------- sequences
RECURSIVE Flatten(_)
Flatten(ss) == IF ss = <<>> THEN <<>> ELSE Head(ss) \o Flatten(Tail(ss))

\* strings.Join(args, " ")
RECURSIVE Join(_)
Join(ss) ==
    IF ss = <<>> THEN <<>>
    ELSE IF Len(ss) = 1 THEN Head(ss)
    ELSE Head(ss) \o <<SP>> \o Join(Tail(ss))

\* The pieces of s between the occurrences of sep (strings.Split): one more
\* piece than there are separators.
RECURSIVE SplitOn(_, _)
SplitOn(s, sep) ==
    IF \A i \in 1..Len(s) : s[i] # sep THEN <<s>>
    ELSE LET k == CHOOSE i \in 1..Len(s) :
                      s[i] = sep /\ \A j \in 1..(i - 1) : s[j] # sep
         IN  <<SubSeq(s, 1, k - 1)>> \o SplitOn(SubSeq(s, k + 1, Len(s)), sep)

\* ------------------------------------------------------------- line parser
\* The lines of the raw output, a final empty line skipped.
SplitLines(raw) ==
    LET ls == SplitOn(raw, LF)
    IN  IF ls[Len(ls)] = <<>> THEN SubSeq(ls, 1, Len(ls) - 1) ELSE ls

\* The newline marker of a data field is turned back into a line feed.  The
\* comma marker stays as Vagrant printed it: PluginList's pattern reads it
\* in data[1].
Unescape(field) == [i \in 1..Len(field) |-> IF field[i] = ESC_LF THEN LF ELSE field[i]]

\* One line: timestamp, target, type, and the data after the third comma,
\* split on its structural commas.  Empty data gives an empty data sequence.
\* Every timestamp vagrant prints is an integer, so its conversion succeeds
\* and the field is kept as read.
ParseLine(line) ==
    LET fs == SplitOn(line, COMMA)
    IN  IF Len(fs) < 4 THEN [err |-> MalformedRecordError]
        ELSE LET rest == SubSeq(fs, 4, Len(fs))
             IN  [err |-> NoError,
                  entry |-> [timestamp |-> fs[1],
                             target |-> fs[2],
                             mType |-> fs[3],
                             data |-> IF rest = <<(<<>>)>> THEN <<>>
                                      ELSE [i \in 1..Len(rest) |-> Unescape(rest[i])]]]

RECURSIVE ParseLines(_)
ParseLines(ls) ==
    IF ls = <<>> THEN [entries |-> <<>>, err |-> NoError]
    ELSE LET h == ParseLine(Head(ls))
         IN  IF h.err # NoError THEN [entries |-> <<>>, err |-> h.err]
             ELSE LET t == ParseLines(Tail(ls))
                  IN  IF t.err # NoError THEN t
                      ELSE [entries |-> <<h.entry>> \o t.entries, err |-> NoError]

\* parseMachineReadable(out): the records in input order, or the first error.
parseMachineReadable(raw) == ParseLines(SplitLines(raw))

\* ------------------------------------------------------------- reducers
\* MachineState: the zero value, and the states ToMachineState knows.
ZeroState == "MachineState(0)"
KnownStates == {"running", "poweroff", "saved", "aborted", "not_created"}

\* ToMachineState(raw): total; an unrecognised string is the unknown state.
ToMachineState(raw) ==
    IF Len(raw) = 1 /\ raw[1] \in KnownStates THEN raw[1] ELSE "unknown"

\* pluckEntryData(entries, mType): the data of the first record of the type.
pluckEntryData(entries, mType) ==
    IF \E i \in 1..Len(entries) : entries[i].mType = mType
    THEN LET k == CHOOSE i \in 1..Len(entries) :
                      /\ entries[i].mType = mType
                      /\ \A j \in 1..(i - 1) : entries[j].mType # mType
         IN  [data |-> entries[k].data, err |-> NoError]
    ELSE [data |-> <<>>, err |-> EntryNotFoundError(mType)]

\* status, ok := statusMap[entry.target]; if !ok { create and store }
FetchOrCreate(statusMap, target) ==
    IF target \in DOMAIN statusMap THEN statusMap
    ELSE statusMap @@ (target :> [Name |-> target, Provider |-> <<>>, State |-> ZeroState])

\* switch entry.mType: the status after the record is applied.  The index
\* expression entry.data[0] is out of range on an empty data sequence.
PopulateOutOfRange(entry) ==
    /\ entry.mType \in {S("provider-name"), S("state")}
    /\ Len(entry.data) = 0

\* Populate with a slip: a field already set is not overwritten.
FirstWinsPopulate(status, entry) ==
    CASE entry.mType = S("provider-name") /\ status.Provider = <<>> ->
             [status EXCEPT !.Provider = entry.data[1]]
      [] entry.mType = S("state") /\ status.State = ZeroState ->
             [status EXCEPT !.State = ToMachineState(entry.data[1])]
      [] OTHER -> status

Populate(status, entry) ==
    CASE entry.mType = S("provider-name") -> [status EXCEPT !.Provider = entry.data[1]]
      [] entry.mType = S("state") -> [status EXCEPT !.State = ToMachineState(entry.data[1])]
      [] OTHER -> status

\* for _, entry := range machineInfo { ... }
RECURSIVE StatusLoop(_, _)
StatusLoop(machineInfo, statusMap) ==
    IF machineInfo = <<>> THEN [panic |-> FALSE, statusMap |-> statusMap]
    ELSE LET entry == Head(machineInfo)
         IN  IF Len(entry.target) = 0 THEN StatusLoop(Tail(machineInfo), statusMap)
             ELSE LET m == FetchOrCreate(statusMap, entry.target)
                  IN  IF PopulateOutOfRange(entry)
                      THEN [panic |-> TRUE, statusMap |-> m]
                      ELSE StatusLoop(Tail(machineInfo),
                               [m EXCEPT ![entry.target] = Populate(m[entry.target], entry)])

\* The empty map: statusMap := map[string]*MachineStatus{}
EmptyMap == [t \in {} |-> ZeroState]

\* for _, st := range statusMap { append }: Go ranges over a map in any order.
Orders(statusMap) ==
    {q \in [1..Cardinality(DOMAIN statusMap) -> DOMAIN statusMap] :
        \A i, j \in DOMAIN q : i # j => q[i] # q[j]}

\* ------------------------------------------------------------- plugins
IsSpaceTok(t) == t \in {SP, LF}

\* ^([\w-]+)\s\((.*)%!\(VAGRANT_COMMA\)\s([a-z]+)\)$ against s: the end of
\* the name n and the place of the comma marker k, when s matches.
PatternSplits(s) ==
    {nk \in (1..Len(s)) \X (1..Len(s)) :
        LET n == nk[1]
            k == nk[2]
        IN  /\ \A i \in 1..n : s[i] \in WordTokens
            /\ n + 2 < k
            /\ IsSpaceTok(s[n + 1])
            /\ s[n + 2] = LPAR
            /\ \A i \in (n + 3)..(k - 1) : s[i] # LF
            /\ s[k] = VAGRANT_COMMA
            /\ k + 2 < Len(s)
            /\ IsSpaceTok(s[k + 1])
            /\ \A i \in (k + 2)..(Len(s) - 1) : s[i] \in LowerTokens
            /\ s[Len(s)] = RPAR}

\* pluginMetadataExtractor.FindAllStringSubmatch(s, -1): no element when s
\* does not match, else one element: the match and its three groups.
FindAllStringSubmatch(s) ==
    IF PatternSplits(s) = {} THEN <<>>
    ELSE LET nk == CHOOSE x \in PatternSplits(s) : TRUE
         IN  << <<s,
                  SubSeq(s, 1, nk[1]),
                  SubSeq(s, nk[1] + 3, nk[2] - 1),
                  SubSeq(s, nk[2] + 2, Len(s) - 1)>> >>

\* entry.data[1] is out of range, or FindAllStringSubmatch(...)[0] is.
ExtractOutOfRange(entry) ==
    \/ Len(entry.data) < 2
    \/ FindAllStringSubmatch(entry.data[2]) = <<>>

\* matches := ...[0][1:]; Plugin{matches[0], matches[1], matches[2]}
\* ExtractPlugin with a slip: the [1:] that drops the whole match is missing.
ExtractPluginWholeMatch(entry) ==
    LET matches == FindAllStringSubmatch(entry.data[2])[1]
    IN  [Name |-> matches[1], Version |-> matches[2], Location |-> matches[3]]

ExtractPlugin(entry) ==
    LET matches == Tail(FindAllStringSubmatch(entry.data[2])[1])
    IN  [Name |-> matches[1], Version |-> matches[2], Location |-> matches[3]]

\* if entry.mType == "ui"
IsPluginEntry(entry) == entry.mType = S("ui")

\* for _, entry := range pluginInfo { ... }
RECURSIVE PluginLoop(_, _)
PluginLoop(pluginInfo, plugins) ==
    IF pluginInfo = <<>> THEN [panic |-> FALSE, plugins |-> plugins]
    ELSE LET entry == Head(pluginInfo)
         IN  IF IsPluginEntry(entry)
             THEN IF ExtractOutOfRange(entry) THEN [panic |-> TRUE, plugins |-> plugins]
                  ELSE PluginLoop(Tail(pluginInfo), Append(plugins, ExtractPlugin(entry)))
             ELSE PluginLoop(Tail(pluginInfo), plugins)

\* ------------------------------------------------------------- processes
\* What the operating system does with the command: it cannot be started,
\* it exits with a code, or a signal ends it (ExitCode() is then -1).
StartFailure == [how |-> "start-failed", code |-> 0, stdout |-> <<>>, stderr |-> <<>>]
Exited(code, out, errText) ==
    [how |-> IF code = -1 THEN "signaled" ELSE "exited",
     code |-> code, stdout |-> out, stderr |-> errText]

\* err := c.Run()
RunError(p) ==
    IF p.how = "start-failed" THEN "other"
    ELSE IF p.code = 0 THEN "nil" ELSE "*exec.ExitError"

\* Execute with a slip: a process that could not be started is reported as
\* an ExitError instead of a panic.
ExecuteNoPanic(cmd, args, p) ==
    IF RunError(p) = "nil"
    THEN [panic |-> FALSE, bs |-> p.stdout, err |-> NoError]
    ELSE [panic |-> FALSE, bs |-> p.stdout, err |-> newExitError(cmd, p.code, p.stderr)]

\* ShellRunner.Execute(cmd, args...)
Execute(cmd, args, p) ==
    IF RunError(p) = "nil"
    THEN [panic |-> FALSE, bs |-> p.stdout, err |-> NoError]
    ELSE IF RunError(p) # "*exec.ExitError"
         THEN [panic |-> TRUE, bs |-> <<>>, err |-> NoError]
         ELSE [panic |-> FALSE, bs |-> p.stdout,
               err |-> newExitError(cmd, p.code, p.stderr)]

\* ------------------------------------------------------------- logging
\* logger := log.New(): a logrus logger starts at the info level.
LoggerLevel == "info"

Infof(format, text) == <<[level |-> "info", format |-> format, text |-> text]>>
Debugf(format, text) ==
    IF LoggerLevel \in {"debug", "trace"}
    THEN <<[level |-> "debug", format |-> format, text |-> text]>>
    ELSE <<>>

\* wrapper.info(out): log non-empty input.
info(out) == IF Len(out) > 0 THEN Infof("%s", out) ELSE <<>>

\* ------------------------------------------------------------- wrapper
NoArg == <<>>
NoProc == [how |-> "none", code |-> 0, stdout |-> <<>>, stderr |-> <<>>]
NoExec == [panic |-> FALSE, bs |-> <<>>, err |-> [kind |-> "none"]]
NoReturn == [val |-> <<>>, err |-> [kind |-> "none"]]

\* wrapper.exec(args...): one Execute of the runner, logged before and after.
exec(args, p) ==
    LET fullCmd == binary \o <<SP>> \o Join(args)
        r == Execute(binary, args, p)
        call == [cmd |-> binary, args |-> args]
    IN  IF r.panic
        THEN [panic |-> TRUE, bs |-> <<>>, err |-> NoError, r |-> r,
              invoked |-> <<call>>,
              log |-> Infof("Running command [%s]", fullCmd)]
        ELSE [panic |-> FALSE, bs |-> r.bs, err |-> r.err, r |-> r,
              invoked |-> <<call>>,
              log |-> Infof("Running command [%s]", fullCmd)
                      \o Debugf("Command output [%s]: %s", r.bs)]

\* What a call leaves behind when the runner panics inside exec.
Panicked(e, parsedCount) ==
    [pc |-> "panic", invoked |-> e.invoked, execRet |-> e.r, parsed |-> parsedCount,
     val |-> <<>>, err |-> [kind |-> "none"], log |-> e.log]

Returned(e, parsedCount, val, err, logged) ==
    [pc |-> "done", invoked |-> e.invoked, execRet |-> e.r, parsed |-> parsedCount,
     val |-> val, err |-> err, log |-> logged]

\* Forward with a slip: the output is logged whatever the error.
ForwardAlwaysLogs(args, p) ==
    LET e == exec(args, p)
    IN  IF e.panic THEN Panicked(e, 0)
        ELSE Returned(e, 0, <<>>, e.err, e.log \o info(e.bs))

\* out, err := w.exec(...); if err == nil { w.info(out) }; return err
Forward(args, p) ==
    LET e == exec(args, p)
    IN  IF e.panic THEN Panicked(e, 0)
        ELSE Returned(e, 0, <<>>, e.err,
                      e.log \o (IF e.err = NoError THEN info(e.bs) ELSE <<>>))

\* The body of Status up to the range over statusMap; val is the map.
StatusCall(p) ==
    LET e == exec(<<S("status"), S("--machine-readable")>>, p)
    IN  IF e.panic THEN [Panicked(e, 0) EXCEPT !.val = EmptyMap]
        ELSE IF e.err # NoError THEN Returned(e, 0, EmptyMap, e.err, e.log)
        ELSE LET machineInfo == parseMachineReadable(e.bs)
             IN  IF machineInfo.err # NoError
                 THEN Returned(e, 1, EmptyMap, machineInfo.err, e.log)
                 ELSE LET loop == StatusLoop(machineInfo.entries, EmptyMap)
                      IN  IF loop.panic THEN [Panicked(e, 1) EXCEPT !.val = EmptyMap]
                          ELSE Returned(e, 1, loop.statusMap, NoError, e.log)

\* statuses = append(statuses, *st), in the order q of the range.
Statuses(statusMap, q) == [i \in 1..Len(q) |-> statusMap[q[i]]]

VersionCall(p) ==
    LET e == exec(<<S("version"), S("--machine-readable")>>, p)
    IN  IF e.panic THEN Panicked(e, 0)
        ELSE IF e.err # NoError THEN Returned(e, 0, <<>>, e.err, e.log)
        ELSE LET vInfo == parseMachineReadable(e.bs)
             IN  IF vInfo.err # NoError THEN Returned(e, 1, <<>>, vInfo.err, e.log)
                 ELSE LET d == pluckEntryData(vInfo.entries, S("version-installed"))
                      IN  IF d.err # NoError THEN Returned(e, 1, <<>>, d.err, e.log)
                          ELSE IF Len(d.data) = 0 THEN Panicked(e, 1)
                          ELSE Returned(e, 1, d.data[1], d.err, e.log)

SSHCall(command, p) ==
    LET e == exec(<<S("ssh"), S("--no-tty"), S("--command"), command>>, p)
    IN  IF e.panic THEN Panicked(e, 0)
        ELSE Returned(e, 0, e.bs, e.err, e.log)

\* PluginListCall with a slip: the error of the parse is not looked at, and
\* the plugins of the records that were read are returned.
PluginListCallSkipsParseError(p) ==
    LET e == exec(<<S("plugin"), S("list"), S("--machine-readable")>>, p)
    IN  IF e.panic THEN Panicked(e, 0)
        ELSE IF e.err # NoError THEN Returned(e, 0, <<>>, e.err, e.log)
        ELSE LET pluginInfo == parseMachineReadable(e.bs)
                 loop == PluginLoop(pluginInfo.entries, <<>>)
             IN  IF loop.panic THEN Panicked(e, 1)
                 ELSE Returned(e, 1, loop.plugins, NoError, e.log)

PluginListCall(p) ==
    LET e == exec(<<S("plugin"), S("list"), S("--machine-readable")>>, p)
    IN  IF e.panic THEN Panicked(e, 0)
        ELSE IF e.err # NoError THEN Returned(e, 0, <<>>, e.err, e.log)
        ELSE LET pluginInfo == parseMachineReadable(e.bs)
             IN  IF pluginInfo.err # NoError
                 THEN Returned(e, 1, <<>>, pluginInfo.err, e.log)
                 ELSE LET loop == PluginLoop(pluginInfo.entries, <<>>)
                      IN  IF loop.panic THEN Panicked(e, 1)
                          ELSE Returned(e, 1, loop.plugins, NoError, e.log)

\* cmdArgs of PluginInstall
InstallArgs(plugin) ==
    <<S("plugin"), S("install"), plugin.Name>>
    \o (IF Len(plugin.Version) > 0 THEN <<S("--plugin-version"), plugin.Version>> ELSE <<>>)
    \o (IF plugin.Location = S("local") THEN <<S("--local")>> ELSE <<>>)

\* PluginInstallCall with a slip: the name of the plugin is not checked.
PluginInstallCallUnchecked(plugin, p) == Forward(InstallArgs(plugin), p)

PluginInstallCall(plugin, p) ==
    IF Len(plugin.Name) = 0
    THEN [pc |-> "done", invoked |-> <<>>, execRet |-> NoExec, parsed |-> 0,
          val |-> <<>>, err |-> PluginNameError, log |-> <<>>]
    ELSE Forward(InstallArgs(plugin), p)

\* ------------------------------------------------------------- inputs
\* fields joined by structural commas
RECURSIVE Rec(_)
Rec(fields) ==
    IF Len(fields) = 1 THEN Head(fields)
    ELSE Head(fields) \o <<COMMA>> \o Rec(Tail(fields))

Desc1 == <<"vagrant-disksize", SP, LPAR, "0.1.3", VAGRANT_COMMA, SP, "global", RPAR>>
Desc2 == <<"vagrant-vbguest", SP, LPAR, "0.21", VAGRANT_COMMA, SP, "local", RPAR>>
DescNone == <<"No", SP, "plugins", SP, "installed.">>

\* The lines `vagrant status --machine-readable` may print: the records of
\* machines a and b, a record without target, a record of another type, a
\* record without data, and a line cut short.
StatusLines ==
    { Rec(<<S("1"), S("a"), S("state"), S("running")>>),
      Rec(<<S("1"), S("a"), S("state"), S("poweroff")>>),
      Rec(<<S("1"), S("a"), S("provider-name"), S("virtualbox")>>),
      Rec(<<S("1"), S("a"), S("provider-name"), S("docker")>>),
      Rec(<<S("1"), S("b"), S("state"), S("bogus")>>),
      Rec(<<S("1"), S("b"), S("ui"), S("info"), Desc2>>),
      Rec(<<S("1"), <<>>, S("state"), S("running")>>),
      Rec(<<S("1"), <<>>, S("ui"), S("info"), DescNone>>),
      Rec(<<S("1"), S("a"), S("state"), <<>> >>),
      Rec(<<S("1"), S("a"), S("state")>>) }

\* The lines `vagrant version --machine-readable` may print.
VersionLines ==
    { Rec(<<S("1"), <<>>, S("version-installed"), S("2.3.0")>>),
      Rec(<<S("1"), <<>>, S("version-installed"), S("2.2.9")>>),
      Rec(<<S("1"), <<>>, S("version-latest"), S("2.4.0")>>),
      Rec(<<S("1"), <<>>, S("ui"), S("info"), DescNone>>),
      Rec(<<S("1"), <<>>, S("version-installed"), <<>> >>),
      Rec(<<S("1"), <<>>, S("version-installed")>>) }

\* The lines `vagrant plugin list --machine-readable` may print.
PluginLines ==
    { Rec(<<S("1"), <<>>, S("ui"), S("info"), Desc1>>),
      Rec(<<S("1"), S("b"), S("ui"), S("info"), Desc2>>),
      Rec(<<S("1"), <<>>, S("ui"), S("info"), DescNone>>),
      Rec(<<S("1"), <<>>, S("ui"), S("info")>>),
      Rec(<<S("1"), S("a"), S("state"), S("running")>>),
      Rec(<<S("1"), <<>>, S("ui")>>) }

\* Every line ends with a line feed.
Raw(ls) == Flatten([i \in 1..Len(ls) |-> ls[i] \o <<LF>>])

Streams(pool, n) == {Raw(ls) : ls \in UNION {[1..k -> pool] : k \in 0..n}}

ExitCodes == {0, 1, -1}
StderrTexts == {<<>>, S("boom")}

\* The longest stream (in lines) of a process that fails or writes to stderr.
MaxFailLines == 1

ExitedProcs(outs) == {Exited(c, o, e) : c \in ExitCodes, o \in outs, e \in StderrTexts}

MachineProcs(pool) ==
    {StartFailure}
    \cup {Exited(0, o, <<>>) : o \in Streams(pool, MaxLines)}
    \cup ExitedProcs(Streams(pool, MaxFailLines))

PlainProcs == {StartFailure} \cup ExitedProcs({<<>>, S("ok")})

Commands == {S("ls"), <<"uname", SP, "-a">>}

Plugins ==
    [Name : {<<>>, S("vagrant-disksize")},
     Version : {<<>>, S("0.1.3")},
     Location : {<<>>, S("local"), S("global")}]

\* ------------------------------------------------------------- the calls
Init ==
    /\ pc = "idle"
    /\ op = "none"
    /\ arg = NoArg
    /\ invoked = <<>>
    /\ proc = NoProc
    /\ execRet = NoExec
    /\ parsed = 0
    /\ ret = NoReturn
    /\ log = <<>>

\* The state a call of operation name leaves, from what its body computed.
Commit(name, a, p, c, val) ==
    /\ pc' = c.pc
    /\ op' = name
    /\ arg' = a
    /\ invoked' = c.invoked
    /\ proc' = IF c.invoked = <<>> THEN NoProc ELSE p
    /\ execRet' = c.execRet
    /\ parsed' = c.parsed
    /\ ret' = IF c.pc = "panic" THEN NoReturn ELSE [val |-> val, err |-> c.err]
    /\ log' = c.log

Up ==
    /\ pc = "idle"
    /\ \E p \in PlainProcs :
          LET c == Forward(<<S("up")>>, p) IN Commit("Up", NoArg, p, c, c.val)

Halt ==
    /\ pc = "idle"
    /\ \E p \in PlainProcs :
          LET c == Forward(<<S("halt")>>, p) IN Commit("Halt", NoArg, p, c, c.val)

Destroy ==
    /\ pc = "idle"
    /\ \E p \in PlainProcs :
          LET c == Forward(<<S("destroy"), S("--force")>>, p)
          IN  Commit("Destroy", NoArg, p, c, c.val)

Status ==
    /\ pc = "idle"
    /\ \E p \in MachineProcs(StatusLines) :
          LET c == StatusCall(p)
          IN  \E q \in Orders(c.val) :
                 Commit("Status", NoArg, p, c, Statuses(c.val, q))

Version ==
    /\ pc = "idle"
    /\ \E p \in MachineProcs(VersionLines) :
          LET c == VersionCall(p) IN Commit("Version", NoArg, p, c, c.val)

SSH ==
    /\ pc = "idle"
    /\ \E command \in Commands, p \in PlainProcs :
          LET c == SSHCall(command, p) IN Commit("SSH", command, p, c, c.val)

PluginList ==
    /\ pc = "idle"
    /\ \E p \in MachineProcs(PluginLines) :
          LET c == PluginListCall(p) IN Commit("PluginList", NoArg, p, c, c.val)

PluginInstall ==
    /\ pc = "idle"
    /\ \E plugin \in Plugins, p \in PlainProcs :
          LET c == PluginInstallCall(plugin, p)
          IN  Commit("PluginInstall", plugin, p, c, c.val)

Next ==
    \/ Up
    \/ Halt
    \/ Destroy
    \/ Status
    \/ Version
    \/ SSH
    \/ PluginList
    \/ PluginInstall

Spec == Init /\ [][Next]_vars

\* ------------------------------------------------------------- claims
ParsingOps == {"Status", "Version", "PluginList"}
ForwardingOps == {"Up", "Halt", "Destroy", "PluginInstall"}

\* The runner returned the output without an error.
RanClean == invoked # <<>> /\ ~execRet.panic /\ execRet.err = NoError

\* The lines of the output, and the number of structural commas of a line.
OutLines == SplitLines(proc.stdout)
Commas(line) == Cardinality({i \in 1..Len(line) : line[i] = COMMA})
WellFormed == \A i \in 1..Len(OutLines) : Commas(OutLines[i]) >= 3

\* The records of a well-formed output.
Records == parseMachineReadable(proc.stdout).entries
Targets == {Records[i].target : i \in 1..Len(Records)} \ {<<>>}

\* The positions of the records of target t and type ty.
Of(t, ty) == {i \in 1..Len(Records) : Records[i].target = t /\ Records[i].mType = S(ty)}
Last(is) == CHOOSE i \in is : \A j \in is : j <= i
First(is) == CHOOSE i \in is : \A j \in is : i <= j

\* C1: for every well-formed record stream of the status command, Status
\* returns exactly one MachineStatus per distinct non-empty target: as many
\* entries as targets, with pairwise distinct names, none for the empty target.
C1_OneStatusPerTarget ==
    (op = "Status" /\ RanClean /\ WellFormed) =>
        /\ pc = "done"
        /\ ret.err = NoError
        /\ Len(ret.val) = Cardinality(Targets)
        /\ {ret.val[i].Name : i \in 1..Len(ret.val)} = Targets

\* C2: the entry Status emits for target T is decided by the records of T
\* alone: provider is data[0] of the last provider-name record of T (empty
\* without one), state is the mapping of data[0] of the last state record of
\* T (the zero value without one), and T has at least one record.
C2_EntryFromOwnRecords ==
    (op = "Status" /\ pc = "done" /\ RanClean /\ ret.err = NoError) =>
        \A i \in 1..Len(ret.val) :
            LET st == ret.val[i]
                prov == Of(st.Name, "provider-name")
                stat == Of(st.Name, "state")
            IN  /\ st.Name \in Targets
                /\ st.Provider = IF prov = {} THEN <<>> ELSE Records[Last(prov)].data[1]
                /\ st.State = IF stat = {} THEN ZeroState
                              ELSE ToMachineState(Records[Last(stat)].data[1])

\* Status returned entries for a stream in which a record of b stands between
\* two state records of a that differ, and b has an entry from a ui record.
C2_Witness ==
    /\ op = "Status" /\ pc = "done" /\ RanClean /\ ret.err = NoError
    /\ Len(ret.val) = 2
    /\ Len(Records) = 3
    /\ Records[1].target = S("a") /\ Records[1].mType = S("state")
    /\ Records[2].target = S("b") /\ Records[2].mType = S("ui")
    /\ Records[3].target = S("a") /\ Records[3].mType = S("state")
    /\ Records[1].data # Records[3].data

\* The ui records of the output, in stream order.
UiPositions == {i \in 1..Len(Records) : Records[i].mType = S("ui")}
Matching(i) == Len(Records[i].data) >= 2 /\ PatternSplits(Records[i].data[2]) # {}
RECURSIVE Ascending(_)
Ascending(is) ==
    IF is = {} THEN <<>> ELSE <<First(is)>> \o Ascending(is \ {First(is)})

\* The three groups the pattern captures in the description of record i.
Captured(i) ==
    LET m == FindAllStringSubmatch(Records[i].data[2])[1]
    IN  [Name |-> m[2], Version |-> m[3], Location |-> m[4]]
PluginsOf(is) == [k \in 1..Cardinality(is) |-> Captured(Ascending(is)[k])]

\* C3: a ui record whose description does not match the plugin pattern is
\* left out of PluginList's result without an error, and the well-formed
\* plugin records of the stream are still returned.
C3_NonMatchingSkipped ==
    (/\ op = "PluginList" /\ RanClean /\ WellFormed
     /\ \A i \in UiPositions : Len(Records[i].data) >= 2
     /\ \E i \in UiPositions : ~Matching(i)) =>
        /\ pc = "done"
        /\ ret.err = NoError
        /\ ret.val = PluginsOf({i \in UiPositions : Matching(i)})

\* C4: Version returns data[0] of the first version-installed record of the
\* stream, and an entry-not-found error with an empty version without one.
C4_FirstVersionInstalled ==
    (op = "Version" /\ RanClean /\ WellFormed) =>
        LET vs == {i \in 1..Len(Records) : Records[i].mType = S("version-installed")}
        IN  /\ pc = "done"
            /\ vs # {} => /\ ret.err = NoError
                          /\ Len(Records[First(vs)].data) > 0
                          /\ ret.val = Records[First(vs)].data[1]
            /\ vs = {} => /\ ret.err = EntryNotFoundError(S("version-installed"))
                          /\ ret.val = <<>>

OutputEntries == {i \in 1..Len(log) : log[i].format # "Running command [%s]"}

\* C6: when the runner returns an error, the operation returns that error
\* unchanged; Status, Version and PluginList return an empty result and do
\* not parse; Up, Halt, Destroy and PluginInstall do not log the output.
C6_RunnerErrorPropagated ==
    (invoked # <<>> /\ ~execRet.panic /\ execRet.err # NoError) =>
        /\ pc = "done"
        /\ ret.err = execRet.err
        /\ op \in ParsingOps => (ret.val = <<>> /\ parsed = 0)
        /\ op \in ForwardingOps => OutputEntries = {}

\* Status returned after a process that printed a parsable line and exited
\* with code 1.
C6_Witness ==
    /\ op = "Status" /\ pc = "done"
    /\ proc.how = "exited" /\ proc.code = 1
    /\ proc.stdout # <<>> /\ WellFormed
    /\ ret.err.kind = "ExitError"

\* C7 as stated: every call of a public operation has run exactly one
\* command through the runner when it ends.
C7_ExactlyOneInvocation ==
    pc # "idle" => Len(invoked) = 1

\* C7, amended: every call of a public operation has run exactly one command
\* through the runner when it ends, except PluginInstall of a plugin with an
\* empty name, which runs none.
C7_OneInvocationUnlessNameless ==
    pc # "idle" =>
        Len(invoked) = IF op = "PluginInstall" /\ Len(arg.Name) = 0 THEN 0 ELSE 1

\* PluginInstall of a plugin without a name returned its own error.
C7_Witness ==
    /\ op = "PluginInstall" /\ pc = "done"
    /\ Len(arg.Name) = 0
    /\ ret.err = PluginNameError

\* C8: Execute returns the captured stdout and no error when the process
\* exits with 0; the captured stdout and an ExitError with the command name,
\* the exit code and the captured stderr when it ends otherwise; and panics,
\* returning nothing, when the process could not be started.
C8_ExecuteOutcomes ==
    invoked # <<>> =>
        IF proc.how = "start-failed"
        THEN execRet.panic /\ pc = "panic" /\ ret = NoReturn
        ELSE /\ ~execRet.panic
             /\ execRet.bs = proc.stdout
             /\ execRet.err = IF proc.code = 0 THEN NoError
                              ELSE [kind |-> "ExitError", cmd |-> invoked[1].cmd,
                                    code |-> proc.code, stderr |-> proc.stderr]

\* A process that printed to both streams and exited with code 1 was run.
C8_Witness ==
    /\ invoked # <<>>
    /\ proc.how = "exited" /\ proc.code = 1
    /\ proc.stdout # <<>> /\ proc.stderr # <<>>
    /\ execRet.err.kind = "ExitError"

\* C9: when the description of every ui record matches the pattern,
\* PluginList returns one Plugin per ui record, in stream order, made of the
\* three captured parts; other records and targets add nothing.
C9_OnePluginPerUiRecord ==
    (/\ op = "PluginList" /\ RanClean /\ WellFormed
     /\ \A i \in UiPositions : Matching(i)) =>
        /\ pc = "done"
        /\ ret.err = NoError
        /\ ret.val = PluginsOf(UiPositions)

\* PluginList returned two different plugins from a stream that also holds
\* a record of another type.
C9_Witness ==
    /\ op = "PluginList" /\ pc = "done" /\ RanClean /\ WellFormed
    /\ \A i \in UiPositions : Matching(i)
    /\ Cardinality(UiPositions) = 2
    /\ Len(Records) = 3
    /\ Len(ret.val) = 2
    /\ ret.val[1] = [Name |-> S("vagrant-disksize"), Version |-> S("0.1.3"),
                     Location |-> S("global")]
    /\ ret.val[2] = [Name |-> S("vagrant-vbguest"), Version |-> S("0.21"),
                     Location |-> S("local")]

\* C10: on every stream the line parser accepts, Status, Version and
\* PluginList end with a result or an error value, never with a panic.
C10_NoPanicOnAcceptedStream ==
    (op \in ParsingOps /\ RanClean /\ WellFormed) => pc = "done"

====
